---- MODULE Spec2Model ----
(***************************************************************************)
(* The Android player of pydatpiff (backend/audio/androidplayer.py): the   *)
(* position anchor (_start_time), the pause position, the state dict and   *)
(* the byte offset of every reload, driven by setTrack, play, pause,       *)
(* rewind, ffwd, stop, the polling clock and the passing of wall-clock     *)
(* time.  Time is counted in whole seconds; an operation takes no time.    *)
(* _load_time and _elapse, which the player writes and no operation reads, *)
(* are left out.                                                           *)
(*                                                                         *)
(* The desktop side is modelled next to it: the VLC Player (src/player.py) *)
(* with the calls it makes on the libvlc media player, and DatpiffPlayer   *)
(* (backend/mediasetup.py) with the album URL it builds.                   *)
(***************************************************************************)
EXTENDS Integers, Sequences, FiniteSets, TLC

VARIABLES
    self,     \* the Android instance: its attributes
    now,      \* time(): the wall clock, in seconds
    clocks,   \* number of startClock polling loops running
    last,     \* the latest operation: its name, argument and whether it returned
    prev,     \* the operation before it
    player,   \* the VLC Player instance and the libvlc media player behind it
    album,    \* the DatpiffPlayer instance and the page its URL serves
    seen,     \* the latest desktop operation and what it saw
    mp3       \* the Mp3 instance and what its latest property access gave

android == <<self, now, clocks, last, prev>>

desktop == <<player, album, seen, mp3>>

vars == <<self, now, clocks, last, prev, player, album, seen, mp3>>

\* ---------------------------------------------------------------- bounds
MaxTime == 3      \* the wall clock runs from 0 to MaxTime
MaxDelta == 2     \* rewind/ffwd amounts are 1..MaxDelta seconds
MaxPos == 3       \* a seek is taken while it leaves |now - _start_time| <= MaxPos
MaxClocks == 2    \* play is taken while fewer than MaxClocks loops run

Deltas == 1..MaxDelta

\* ---------------------------------------------------------------- tracks
\* A media file: duration is eyed3's info.time_secs, len the size of the
\* file's content in bytes.  Path 0 stands for "no such file".
Tracks == << [duration |-> 2, len |-> 4],
             [duration |-> 3, len |-> 1],
             [duration |-> 0, len |-> 2],
             [duration |-> 2, len |-> 0] >>

TrackIds == 1..Len(Tracks)

\* The files with a duration and a content.
Playable == {i \in TrackIds : Tracks[i].duration > 0 /\ Tracks[i].len > 0}

NoTrack == 0

\* Path.isFile(path)
isFile(path) == path \in TrackIds

\* duration property: self.__Id3.info.time_secs of the loaded file
duration(s) == Tracks[s.content].duration

\* __len__: len(self.__content)
len(s) == Tracks[s.content].len

\* int(spot * bytes_per_sec) with bytes_per_sec = len(self)/self.duration;
\* the operands are non-negative, so int() is the floor of the quotient.
BytesAt(s, spot) == (spot * len(s)) \div duration(s)

\* int(bytes_per_sec): one second's worth of bytes
bytes_per_sec(s) == BytesAt(s, 1)

\* ---------------------------------------------------------------- outcomes
\* An operation either returns or raises; what it assigned before raising stays.
Return(s) == [self |-> s, ok |-> TRUE]

Raise(s) == [self |-> s, ok |-> FALSE]

hasattr(s, name) == name \in s.attrs

\* ---------------------------------------------------------------- state dict
__resetState == [playing |-> FALSE, pause |-> FALSE, load |-> FALSE, stop |-> FALSE]

\* _is_playing giving the pause flag the value of the playing flag.
_is_playing_same(s, boolean) ==
    [s EXCEPT !.state.playing = boolean, !.state.pause = boolean]

_is_playing(s, boolean) ==
    [s EXCEPT !.state.playing = boolean, !.state.pause = ~boolean]

\* ---------------------------------------------------------------- position
\* The getter without its clamp at 0.
current_position_unclamped(s, t) == t - s._start_time

current_position(s, t) ==
    LET pos == t - s._start_time
    IN  IF pos > 0 THEN pos ELSE 0

set_current_position(s, pos) == [s EXCEPT !._start_time = @ - pos]

set_pause_position(s, pos) ==
    [s EXCEPT !._pause_pos = pos, !.attrs = @ \cup {"_pause_pos"}]

\* ---------------------------------------------------------------- loading
preloadTrack(s) ==
    IF s.songpath = NoTrack
    THEN Raise(s)
    ELSE Return([s EXCEPT !.content = s.songpath, !.state.load = TRUE])

\* The byte offset of a reload whose second count is spot.
Topos(s, spot) == IF spot > 0 THEN BytesAt(s, spot) ELSE BytesAt(s, 1)

\* __load's first branch taking the not-paused arm whatever the state.
Reanchor_ignoring_pause(s, position, t) == set_current_position(s, position)

\* The anchor after __load's first branch.
Reanchor(s, position, t) ==
    IF s.state.pause
    THEN set_current_position(s,
             -(current_position(s, t) - (s._pause_pos + position)))
    ELSE set_current_position(s, position)

__load(s, position, t) ==
    IF ~hasattr(s, "_start_time")
    THEN Raise(s)
    ELSE IF s.state.pause /\ ~hasattr(s, "_pause_pos")
    THEN Raise(s)
    ELSE LET s1 == Reanchor(s, position, t)
             spot == current_position(s1, t) + position
         IN  IF duration(s1) = 0
             THEN Raise(s1)
             ELSE Return([s1 EXCEPT !.topos = Topos(s1, spot),
                                    !.attrs = @ \cup {"topos"}])

_play(s, position, t) ==
    LET r1 == preloadTrack(s)
    IN  IF ~r1.ok THEN r1
        ELSE LET r2 == __load(r1.self, position, t)
             IN  IF ~r2.ok THEN r2
                 ELSE Return(_is_playing(
                          [r2.self EXCEPT !.transport = "started",
                                          !.state.pause = FALSE], TRUE))

\* ---------------------------------------------------------------- operations
stop(s) == [s EXCEPT !.transport = "halted"]

\* setTrack without its __resetState().
setTrack_keeping_state(s, path, t) ==
    IF isFile(path) THEN Return([s EXCEPT !.songpath = path]) ELSE Raise(s)

setTrack(s, path, t) ==
    LET s1 == [s EXCEPT !.state = __resetState]
    IN  IF isFile(path)
        THEN Return([s1 EXCEPT !.songpath = path])
        ELSE Raise(s1)

play(s, t) ==
    _play([s EXCEPT !._start_time = t, !.attrs = @ \cup {"_start_time"}], 0, t)

pause(s, t) ==
    IF ~s.state.pause
    THEN LET s1 == _is_playing(stop(s), FALSE)
         IN  IF ~hasattr(s1, "_start_time")
             THEN Raise(s1)
             ELSE Return(set_pause_position(s1, current_position(s1, t)))
    ELSE _play(s, 0, t)

_seeker(s, pos, t) ==
    _play([s EXCEPT !.state.pause = FALSE], pos, t)

\* rewind passing its amount on without the sign.
rewind_unsigned(s, pos, t) == _seeker(s, pos, t)

rewind(s, pos, t) == _seeker(s, -pos, t)

ffwd(s, pos, t) == _seeker(s, pos, t)

\* hasattr(self, '__content'): the attribute is stored under its mangled name
\* _Android__content, and the string '__content' is not mangled.
HasContentAttr == FALSE

\* One turn of startClock's loop.  len(self)/self.bytes_per_sec is the duration
\* when neither the length nor the duration is 0.
startClock(s, t) ==
    IF HasContentAttr
       /\ s.content # NoTrack
       /\ duration(s) # 0 /\ len(s) # 0
       /\ current_position(s, t) > duration(s)
       /\ s.state.playing
    THEN [s EXCEPT !.state = __resetState]
    ELSE s

\* ================================================================ VLC Player
min_vol == 0

max_vol == 100

MaxSecs == 2      \* the media lasts MaxSecs seconds

\* Amounts given to volumeUp, volumeDown and volume.
Amounts == {-50, 50, 150}

\* Seconds given to rewind and ffwd.
Jumps == {1, 3}

States == {"NothingSpecial", "Opening", "Playing", "Paused", "Stopped", "Ended"}

\* No Player has been constructed.
NoPlayer ==
    [built |-> "no", state |-> "NothingSpecial", track_set |-> FALSE,
     volume |-> 50, time |-> 0, plays |-> 0,
     call |-> [fn |-> "none", arg |-> 0]]

\* ---- the calls made on the libvlc media player (self.player)
Called(p, fn, arg) == [p EXCEPT !.call = [fn |-> fn, arg |-> arg]]

player_pause(p) ==
    Called([p EXCEPT !.state = IF @ = "Playing" THEN "Paused"
                                ELSE IF @ = "Paused" THEN "Playing" ELSE @],
           "pause", 0)

player_play(p) ==
    Called([p EXCEPT !.state = IF @ = "Paused" THEN "Playing" ELSE "Opening",
                     !.time = IF p.state = "Paused" THEN @ ELSE 0,
                     !.plays = @ + 1],
           "play", 0)

player_stop(p) == Called([p EXCEPT !.state = "Stopped", !.time = 0], "stop", 0)

player_set_mrl(p) == Called([p EXCEPT !.plays = 0], "set_mrl", 0)

audio_set_volume(p, vol) ==
    Called([p EXCEPT !.volume = IF vol \in min_vol..max_vol THEN vol ELSE @],
           "audio_set_volume", vol)

set_time(p, ms) ==
    Called([p EXCEPT !.time = IF ms < 0 THEN 0
                               ELSE IF ms > MaxSecs * 1000 THEN MaxSecs * 1000
                               ELSE ms],
           "set_time", ms)

is_playing(p) == IF p.state = "Playing" THEN 1 ELSE 0

\* ---- Player
_state(p) == IF p.state = "NothingSpecial" THEN "No Media" ELSE p.state

\* The except clause of __init__: error_msg(...) + e adds an exception to a
\* str, which raises TypeError out of the handler.
InitHandler == "raised"

\* __init__ whose except clause only builds the message.
Player_init_swallowing(instance, media_player) ==
    [NoPlayer EXCEPT !.built = IF instance = "ok" /\ media_player = "ok"
                                THEN "ok" ELSE "broken"]

\* __init__: vlc.Instance('-q') returns, returns None or raises;
\* media_player_new() returns or raises.
Player_init(instance, media_player) ==
    IF instance = "ok" /\ media_player = "ok"
    THEN [NoPlayer EXCEPT !.built = "ok"]
    ELSE [NoPlayer EXCEPT !.built = InitHandler]

\* play leaving _track_set as it is.
Player_play_keeping_flag(p) ==
    IF is_playing(p) >= 1 THEN player_pause(p)
    ELSE IF _state(p) = "Paused" THEN player_pause(p)
    ELSE IF p.track_set THEN player_play(p)
    ELSE p

Player_play(p) ==
    IF is_playing(p) >= 1 THEN player_pause(p)
    ELSE IF _state(p) = "Paused" THEN player_pause(p)
    ELSE IF p.track_set THEN [player_play(p) EXCEPT !.track_set = FALSE]
    ELSE p

Player_setTrack(p, media) ==
    IF media THEN [player_set_mrl(p) EXCEPT !.track_set = TRUE] ELSE p

\* str(vol).isnumeric() of an int
isnumeric(vol) == vol >= 0

\* _set_volume with an int; read says whether audio_get_volume() returned.
_set_volume(p, vol, way, read) ==
    IF ~isnumeric(vol) THEN p
    ELSE IF ~read THEN audio_set_volume(p, vol)
    ELSE LET current_volume == p.volume
             v == CASE way = "down" ->
                         IF current_volume - vol < min_vol THEN min_vol
                         ELSE current_volume - vol
                    [] way = "up" ->
                         IF current_volume + vol > max_vol THEN max_vol
                         ELSE current_volume + vol
                    [] OTHER ->
                         LET v1 == IF vol < min_vol THEN 0 ELSE vol
                         IN  IF v1 > max_vol THEN 100 ELSE v1
         IN  audio_set_volume(p, v)

volumeUp(p, vol, read) == _set_volume(p, vol, "up", read)

volumeDown(p, vol, read) == _set_volume(p, vol, "down", read)

volume(p, vol, read) == _set_volume(p, vol, "exact", read)

_ffwd_rewind(p, pos, rew) ==
    IF _state(p) = "No Media" THEN p
    ELSE LET to_postion == IF rew THEN p.time - (pos * 1000)
                           ELSE p.time + (pos * 1000)
         IN  set_time(p, to_postion)

Player_rewind(p, pos) == _ffwd_rewind(p, pos, TRUE)

Player_ffwd(p, pos) == _ffwd_rewind(p, pos, FALSE)

\* ================================================================ DatpiffPlayer
\* The class attribute DatpiffPlayer._USE_MOBILE; nothing assigns it.
cls_USE_MOBILE == FALSE

NoAlbum == [built |-> FALSE, _USE_MOBILE |-> cls_USE_MOBILE, page |-> {}]

\* What a version's page holds: the desktop pattern title">...</div and the
\* mobile pattern og:title" content="...".
Pages == SUBSET {"title", "og:title"}

\* build_album_url: a classmethod, it reads the class's flag.
build_album_url(cls) == IF cls THEN "mobile" ELSE "embeds"

\* build_album_url reading the instance's flag.
build_album_url_of_instance(a) == IF a._USE_MOBILE THEN "mobile" ELSE "embeds"

\* The host that embedded_player_content of instance a fetches.
album_url(a) == build_album_url(cls_USE_MOBILE)

\* The page served by a host: the mobile site always carries og:title.
content(a, host) == IF host = "mobile" THEN {"og:title"} ELSE a.page

\* name: the pattern of the instance's version searched in the fetched page;
\* "" stands for no name: an empty match or the AttributeError of
\* None.group(1), which getattr(self, "name", None) turns into None.
name(a) ==
    LET pattern == IF a._USE_MOBILE THEN "og:title" ELSE "title"
    IN  IF pattern \in content(a, album_url(a)) THEN "found" ELSE ""

\* __init__ with __checkVersion, for an album whose embeds page is page.
DatpiffPlayer_init(page) ==
    LET a == [NoAlbum EXCEPT !.built = TRUE, !.page = page]
    IN  IF name(a) = ""
        THEN [a EXCEPT !._USE_MOBILE = TRUE]
        ELSE a

\* ================================================================ Mp3
MaxTracks == 2      \* a page lists at most MaxTracks tracks

None == "None"

\* Track names as the page lists them, character by character.
Names == << <<"a">>, <<"b", " ", "c">>, <<"d", " ">> >>

\* The embedded player page as Mp3 reads it: whether it carries the embed
\* player id, and the tracks it lists; Empty is the falsy response.
Empty == [id |-> None, tracks |-> << >>, text |-> FALSE]

Responses ==
    { [id |-> i, tracks |-> [k \in 1..n |-> Names[((f + k) % Len(Names)) + 1]],
       text |-> TRUE] :
          i \in {None, "6/m1393dba"}, n \in 0..MaxTracks, f \in 0..(Len(Names) - 1) }

\* MediaScraper.get_embed_player_id: the id of the page, and on a page
\* without one either an exception or None, as the scraper decides.
get_embed_player_id(response, fails) ==
    IF response.id # None THEN [value |-> response.id, ok |-> TRUE]
    ELSE IF fails = "raises" THEN [value |-> None, ok |-> FALSE]
    ELSE [value |-> None, ok |-> TRUE]

\* MediaScraper.get_mp3_urls: the track fragments of the page.
get_mp3_urls(response) == response.tracks

NoMp3 == [built |-> FALSE, album_response |-> Empty, op |-> "none",
          raised |-> FALSE, value |-> None, urls |-> << >>]

\* Mp3(album): raises Mp3Error on a falsy embedded_player_content.
Mp3_init(response) ==
    IF ~response.text
    THEN [NoMp3 EXCEPT !.op = "Mp3", !.raised = TRUE]
    ELSE [NoMp3 EXCEPT !.built = TRUE, !.album_response = response,
                       !.op = "Mp3"]

\* re.sub(" ", "%20", song)
urlencode(song) == [i \in 1..Len(song) |-> IF song[i] = " " THEN "%20" ELSE song[i]]

urlencode_track(m) ==
    LET songs == get_mp3_urls(m.album_response)
    IN  [i \in 1..Len(songs) |-> urlencode(songs[i])]

\* album_id: the handler builds Mp3Error(1) without raising it, and the
\* property falls off its end.
album_id(m, fails) ==
    LET r == get_embed_player_id(m.album_response, fails)
    IN  IF r.ok THEN [value |-> r.value, raised |-> FALSE]
        ELSE [value |-> None, raised |-> FALSE]

\* mp3_urls, read to its end.
mp3_urls(m, fails) ==
    LET tracks == urlencode_track(m)
    IN  [i \in 1..Len(tracks) |->
            [prefix |-> "https://hw-mp3.datpiff.com/mixtapes/",
             id |-> album_id(m, fails).value, track |-> tracks[i]]]

\* ---------------------------------------------------------------- history
Event(op, arg, r) == [op |-> op, arg |-> arg, ok |-> r.ok]

\* A desktop operation and the Player it found.
Saw(op, arg, p, read) ==
    [op |-> op, arg |-> arg, volume |-> p.volume, time |-> p.time,
     state |-> p.state, track_set |-> p.track_set, read |-> read]

Apply(op, arg, r) ==
    /\ self' = r.self
    /\ last' = Event(op, arg, r)
    /\ prev' = last
    /\ UNCHANGED desktop

\* ---------------------------------------------------------------- actions
Init ==
    /\ self = [state |-> __resetState,
               attrs |-> {},
               _start_time |-> 0,
               _pause_pos |-> 0,
               topos |-> 0,
               songpath |-> NoTrack,
               content |-> NoTrack,
               transport |-> "idle"]
    /\ now = 0
    /\ clocks = 0
    /\ last = [op |-> "init", arg |-> 0, ok |-> TRUE]
    /\ prev = [op |-> "init", arg |-> 0, ok |-> TRUE]
    /\ player = NoPlayer
    /\ album = NoAlbum
    /\ seen = Saw("init", 0, NoPlayer, TRUE)
    /\ mp3 = NoMp3

SetTrack ==
    /\ \E path \in Playable \cup {NoTrack} :
           Apply("setTrack", path, setTrack(self, path, now))
    /\ UNCHANGED <<now, clocks>>

Play ==
    /\ clocks < MaxClocks
    /\ clocks' = clocks + 1
    /\ Apply(IF self.state.pause THEN "play-paused" ELSE "play", 0, play(self, now))
    /\ UNCHANGED now

Pause ==
    /\ Apply(IF self.state.pause THEN "resume" ELSE "pause", 0, pause(self, now))
    /\ UNCHANGED <<now, clocks>>

Rewind ==
    /\ \E pos \in Deltas :
           /\ hasattr(self, "_start_time") => now - self._start_time - pos >= -MaxPos
           /\ Apply("rewind", pos, rewind(self, pos, now))
    /\ UNCHANGED <<now, clocks>>

Ffwd ==
    /\ \E pos \in Deltas :
           /\ hasattr(self, "_start_time") => now - self._start_time + pos <= MaxPos
           /\ Apply("ffwd", pos, ffwd(self, pos, now))
    /\ UNCHANGED <<now, clocks>>

Stop ==
    /\ Apply("stop", 0, Return(stop(self)))
    /\ UNCHANGED <<now, clocks>>

ClockStep ==
    /\ clocks > 0
    /\ self' = startClock(self, now)
    /\ UNCHANGED <<now, clocks, last, prev>>
    /\ UNCHANGED desktop

Tick ==
    /\ now < MaxTime
    /\ now' = now + 1
    /\ UNCHANGED <<self, clocks, last, prev>>
    /\ UNCHANGED desktop

Next ==
    \/ SetTrack
    \/ Play
    \/ Pause
    \/ Rewind
    \/ Ffwd
    \/ Stop
    \/ ClockStep
    \/ Tick

Spec == Init /\ [][Next]_vars

\* ---------------------------------------------------------------- any file
\* setTrack given any path: a playable file, a file whose metadata says
\* 0 seconds, an empty file, or no file.
SetTrackAny ==
    /\ \E path \in TrackIds \cup {NoTrack} :
           Apply("setTrack", path, setTrack(self, path, now))
    /\ UNCHANGED <<now, clocks>>

NextAnyTrack ==
    \/ SetTrackAny
    \/ Play
    \/ Pause
    \/ Rewind
    \/ Ffwd
    \/ Tick

SpecAnyTrack == Init /\ [][NextAnyTrack]_vars

\* ---------------------------------------------------------------- desktop
Construct ==
    /\ player.built = "no"
    /\ \E instance \in {"ok", "none", "raises"}, media_player \in {"ok", "raises"} :
           /\ player' = Player_init(instance, media_player)
           /\ seen' = Saw("Player",
                          IF instance = "ok" /\ media_player = "ok" THEN 1 ELSE 0,
                          player, TRUE)
    /\ UNCHANGED <<album, mp3>>
    /\ UNCHANGED android

\* An operation of a constructed Player.
Does(op, arg, p, read) ==
    /\ player' = p
    /\ seen' = Saw(op, arg, player, read)
    /\ UNCHANGED <<album, mp3>>
    /\ UNCHANGED android

DoPlay ==
    /\ player.built = "ok"
    /\ Does("play", 0, Player_play(player), TRUE)

DoPause ==
    /\ player.built = "ok"
    /\ Does("pause", 0, player_pause(player), TRUE)

DoStop ==
    /\ player.built = "ok"
    /\ Does("stop", 0, player_stop(player), TRUE)

DoSetTrack ==
    /\ player.built = "ok"
    /\ \E media \in BOOLEAN :
           Does("setTrack", IF media THEN 1 ELSE 0, Player_setTrack(player, media), TRUE)

DoVolumeUp ==
    /\ player.built = "ok"
    /\ \E vol \in Amounts, read \in BOOLEAN :
           Does("volumeUp", vol, volumeUp(player, vol, read), read)

DoVolumeDown ==
    /\ player.built = "ok"
    /\ \E vol \in Amounts, read \in BOOLEAN :
           Does("volumeDown", vol, volumeDown(player, vol, read), read)

DoVolume ==
    /\ player.built = "ok"
    /\ \E vol \in Amounts, read \in BOOLEAN :
           Does("volume", vol, volume(player, vol, read), read)

DoRewind ==
    /\ player.built = "ok"
    /\ \E pos \in Jumps :
           Does("rewind", pos, Player_rewind(player, pos), TRUE)

DoFfwd ==
    /\ player.built = "ok"
    /\ \E pos \in Jumps :
           Does("ffwd", pos, Player_ffwd(player, pos), TRUE)

\* libvlc at work: the media opens, plays on by a second, or ends.
Playback ==
    /\ player.built = "ok"
    /\ player.state \in {"Opening", "Playing"}
    /\ player' = IF player.state = "Opening"
                 THEN [player EXCEPT !.state = "Playing"]
                 ELSE IF player.time < MaxSecs * 1000
                 THEN [player EXCEPT !.time = @ + 1000]
                 ELSE [player EXCEPT !.state = "Ended"]
    /\ UNCHANGED <<album, seen, mp3>>
    /\ UNCHANGED android

NewAlbum ==
    /\ \E page \in Pages : album' = DatpiffPlayer_init(page)
    /\ UNCHANGED <<player, seen, mp3>>
    /\ UNCHANGED android

NextDesktop ==
    \/ Construct
    \/ DoPlay
    \/ DoPause
    \/ DoStop
    \/ DoSetTrack
    \/ DoVolumeUp
    \/ DoVolumeDown
    \/ DoVolume
    \/ DoRewind
    \/ DoFfwd
    \/ Playback
    \/ NewAlbum

SpecDesktop == Init /\ [][NextDesktop]_vars

NewMp3 ==
    /\ album.built
    /\ \E response \in Responses \cup {Empty} : mp3' = Mp3_init(response)
    /\ UNCHANGED <<player, album, seen>>
    /\ UNCHANGED android

ReadAlbumId ==
    /\ mp3.built
    /\ \E fails \in {"raises", "none"} :
           LET r == album_id(mp3, fails)
           IN  mp3' = [mp3 EXCEPT !.op = "album_id", !.raised = r.raised,
                                  !.value = r.value, !.urls = << >>]
    /\ UNCHANGED <<player, album, seen>>
    /\ UNCHANGED android

ReadMp3Urls ==
    /\ mp3.built
    /\ \E fails \in {"raises", "none"} :
           mp3' = [mp3 EXCEPT !.op = "mp3_urls", !.raised = FALSE,
                              !.value = None, !.urls = mp3_urls(mp3, fails)]
    /\ UNCHANGED <<player, album, seen>>
    /\ UNCHANGED android

NextMp3 ==
    \/ NewAlbum
    \/ NewMp3
    \/ ReadAlbumId
    \/ ReadMp3Urls

SpecMp3 == Init /\ [][NextMp3]_vars

\* ---------------------------------------------------------------- observers
HasAnchor == hasattr(self, "_start_time")

\* What current_position returns now.
Pos == current_position(self, now)

Playing == self.state.playing /\ ~self.state.pause

Paused == self.state.pause /\ ~self.state.playing

Reloads == {"play", "play-paused", "resume", "rewind", "ffwd"}

Seeks == {"rewind", "ffwd"}

\* The signed amount of the seek that the step just taken is.
SignedDelta == IF last'.op = "ffwd" THEN last'.arg ELSE -last'.arg

NonNeg(n) == IF n > 0 THEN n ELSE 0

\* ---------------------------------------------------------------- C1
\* C1: a pause taken while playing captures the position p of that moment,
\* and the resume that follows it (the second access of pause) returns with
\* the player playing and the anchor exactly p seconds in the past, so that
\* current_position is p right after the resume, neither 0 nor p plus the
\* time spent paused, and grows with the wall clock from there.  The pause is
\* one taken right after play, or at any position p > 0.
C1_ResumeContinuesFromPause ==
    [][ /\ ( Pause /\ Playing /\ last.op \in Reloads /\ last.ok )
           => ( last'.ok /\ Paused' /\ self'._pause_pos = Pos )
        /\ ( Pause /\ Paused /\ last.op = "pause" /\ last.ok
                   /\ prev.op \in Reloads /\ prev.ok
                   /\ (prev.op = "play" \/ self._pause_pos > 0) )
           => ( /\ last'.ok
                /\ Playing'
                /\ now - self'._start_time = self._pause_pos
                /\ current_position(self', now) = self._pause_pos ) ]_vars

\* A resume has returned after a pause at p > 0 that lasted some time, and the
\* position stands at p.
C1_Witness ==
    /\ last.op = "resume" /\ last.ok
    /\ prev.op = "pause" /\ prev.ok
    /\ Playing
    /\ self._pause_pos > 0
    /\ now > self._pause_pos
    /\ Pos = self._pause_pos

\* ---------------------------------------------------------------- C2
\* C2: a seek by delta taken while playing reloads the file from the byte
\* offset of the position current_position reports right after the seek
\* (after play(0) then ffwd(5): from 5 seconds' worth of bytes).
C2_SeekReloadsAtNewPosition ==
    [][ ( (Ffwd \/ Rewind) /\ Playing /\ last'.ok )
        => self'.topos = Topos(self', current_position(self', now)) ]_vars

\* ---------------------------------------------------------------- C3
\* C3: while Paused after a pause taken while playing, current_position
\* returns the value captured at the pause, however much time has passed.
C3_PausedPositionFrozen ==
    ( Paused /\ last.op = "pause" /\ last.ok /\ prev.op \in Reloads /\ prev.ok )
    => Pos = self._pause_pos

\* ---------------------------------------------------------------- C4
\* C4: a seek by delta taken while Paused at captured position p resumes
\* playback at position p + signed delta (not below 0).
C4_SeekFromPauseUsesPausePosition ==
    [][ ( (Ffwd \/ Rewind) /\ Paused /\ last.op = "pause" /\ last.ok /\ last'.ok )
        => current_position(self', now) = NonNeg(self._pause_pos + SignedDelta) ]_vars

\* ---------------------------------------------------------------- C5
\* C5: from any Playing position p >= d, ffwd(d) followed k seconds later by
\* rewind(d) both return and leave the position at p + k.
C5_FfwdThenRewindCancels ==
    \A d \in Deltas, k \in 0..MaxTime :
        ( HasAnchor /\ Playing /\ Pos >= d )
        => LET a == ffwd(self, d, now)
               b == rewind(a.self, d, now + k)
           IN  /\ a.ok
               /\ b.ok
               /\ current_position(b.self, now + k) = Pos + k

\* An ffwd(d) and then a rewind(d) have been taken, and the player is playing
\* at a position past 0.
C5_Witness ==
    /\ last.op = "rewind" /\ last.ok
    /\ prev.op = "ffwd" /\ prev.ok
    /\ prev.arg = last.arg
    /\ Playing
    /\ Pos > 0

\* ---------------------------------------------------------------- C6
\* C6: in every reachable state current_position is >= 0, and a rewind by more
\* than the current position leaves it at 0.
C6_PositionNeverNegative ==
    HasAnchor =>
        /\ Pos >= 0
        /\ \A d \in Deltas :
               LET r == rewind(self, d, now)
               IN  ( r.ok /\ d > Pos ) => current_position(r.self, now) = 0

\* A rewind has put the anchor in the future, and the position reads 0.
C6_Witness ==
    /\ last.op = "rewind" /\ last.ok
    /\ self._start_time > now
    /\ Pos = 0

\* ---------------------------------------------------------------- C7
\* C7: after every reload of a track with bytes_per_sec > 0 the byte offset
\* is at least one second's worth of bytes and is not 0.
C7_ReloadOffsetAtLeastOneSecond ==
    ( last.op \in Reloads /\ last.ok /\ len(self) > 0 /\ duration(self) > 0 )
    => ( self.topos >= bytes_per_sec(self) /\ self.topos # 0 )

\* ---------------------------------------------------------------- C8
\* C8: while Playing with a polling loop running, a turn of the loop clears
\* the playing state exactly when current_position >= duration.
C8_EndOfTrackSignalled ==
    ( HasAnchor /\ Playing /\ clocks > 0 )
    => ( ~startClock(self, now).state.playing <=> Pos >= duration(self) )

\* ---------------------------------------------------------------- C9
\* C9: after a stop taken while playing or paused the transport is halted,
\* the playing and pause flags are both false and no pause position is left.
C9_StopLeavesStopped ==
    ( last.op = "stop" /\ prev.op \in Reloads \cup {"pause"} /\ prev.ok )
    => /\ self.transport = "halted"
       /\ ~self.state.playing
       /\ ~self.state.pause
       /\ ~hasattr(self, "_pause_pos")

\* ---------------------------------------------------------------- C10
\* C10: a play that follows a setTrack of a file returns with the anchor at
\* the present (current_position 0, growing from there), the new file loaded
\* and the flags those of a fresh Playing state, whatever was left behind.
C10_PlayAfterSetTrackStartsAtZero ==
    [][ ( Play /\ last.op = "setTrack" /\ last.ok )
        => ( /\ last'.ok
             /\ self'._start_time = now
             /\ current_position(self', now) = 0
             /\ self'.content = self.songpath
             /\ self'.state = [playing |-> TRUE, pause |-> FALSE,
                               load |-> TRUE, stop |-> FALSE] ) ]_vars

\* A second track has been set and played after the first was paused at a
\* position past 0; time has passed since.
C10_Witness ==
    /\ last.op = "play" /\ last.ok
    /\ prev.op = "setTrack" /\ prev.ok
    /\ hasattr(self, "_pause_pos") /\ self._pause_pos > 0
    /\ clocks > 1
    /\ Pos > 0

\* ---------------------------------------------------------------- C11
\* C11: setTrack of a file whose duration is 0 or whose content is empty
\* raises, such a file never becomes the player's track, and no reload raises
\* on a track that was set.
C11_InvalidTrackRejectedAtLoad ==
    /\ ( last.op = "setTrack" /\ last.arg \in TrackIds \ Playable ) => ~last.ok
    /\ self.songpath # NoTrack => self.songpath \in Playable
    /\ ( last.op = "play" /\ prev.op = "setTrack" /\ prev.ok ) => last.ok

\* ---------------------------------------------------------------- C12
\* C12: a pause taken right after a setTrack, when the player is neither
\* playing nor paused, returns without setting the pause flag.
C12_PauseOnlyFromPlaying ==
    ( last.op = "pause" /\ last.ok /\ prev.op = "setTrack" /\ prev.ok )
    => ~self.state.pause

\* ---------------------------------------------------------------- C16
\* C16: after a stop or a setTrack that follows a play no polling loop runs,
\* and after a play exactly one does.
C16_AtMostOnePollingLoop ==
    /\ ( last.op \in {"stop", "setTrack"} /\ last.ok
            /\ prev.op \in {"play", "play-paused"} /\ prev.ok ) => clocks = 0
    /\ ( last.op \in {"play", "play-paused"} /\ last.ok ) => clocks = 1

\* ---------------------------------------------------------------- C17
\* C17: a rewind never leaves the anchor in the future: right after it the
\* position counts from an anchor at or before the present, so that it grows
\* with the very next second.
C17_RewindClampsAnchor ==
    [][ ( Rewind /\ last'.ok ) => self'._start_time <= now ]_vars

\* ---------------------------------------------------------------- C18
\* C18: the playing and pause flags are never both true.
C18_PlayingAndPauseExclusive ==
    ~(self.state.playing /\ self.state.pause)

\* Every kind of operation has been through: the player was paused, resumed,
\* and sought, and is playing.
C18_Witness ==
    /\ last.op \in Seeks /\ last.ok
    /\ prev.op = "resume" /\ prev.ok
    /\ hasattr(self, "_pause_pos")
    /\ self.state.playing /\ ~self.state.pause

\* C13: every value volumeUp, volumeDown or volume passes to audio_set_volume
\* lies in 0..100: from volume c, volumeUp(v) sets min(100, c+v),
\* volumeDown(v) sets max(0, c-v) and volume(v) sets min(100, v), also when
\* reading the current volume fails.
C13_VolumeClamped ==
    ( seen.op \in {"volumeUp", "volumeDown", "volume"} /\ isnumeric(seen.arg) )
    => /\ player.call.fn = "audio_set_volume"
       /\ player.call.arg \in min_vol..max_vol
       /\ player.call.arg =
              CASE seen.op = "volumeUp" ->
                       IF seen.volume + seen.arg > max_vol THEN max_vol
                       ELSE seen.volume + seen.arg
                [] seen.op = "volumeDown" ->
                       IF seen.volume - seen.arg < min_vol THEN min_vol
                       ELSE seen.volume - seen.arg
                [] OTHER ->
                       IF seen.arg > max_vol THEN max_vol ELSE seen.arg

\* C14: an instance flagged to use the mobile version fetches its album page
\* from the mobile host, the site whose name pattern `name` applies.
C14_MobileFlagUsesMobileHost ==
    ( album.built /\ album._USE_MOBILE ) => album_url(album) = "mobile"

\* C15: when the VLC instance or the media player cannot be created,
\* constructing Player raises; no Player is returned without a transport.
C15_ConstructorSurfacesFailure ==
    [][ Construct => \/ player'.built = "ok" /\ seen'.arg = 1
                     \/ player'.built = "raised" /\ seen'.arg = 0 ]_vars

C15_Witness == player.built = "raised" /\ seen.op = "Player" /\ seen.arg = 0

\* C19: a rewind by more than the current time passes 0 to set_time.
C19_RewindNeverNegative ==
    ( seen.op = "rewind" /\ seen.state \in {"Playing", "Paused"}
        /\ seen.arg * 1000 > seen.time )
    => ( player.call.fn = "set_time" /\ player.call.arg = 0 )

\* C20: play() reaches the transport at most once per setTrack(media): while
\* playing or paused Player.play only toggles pause, once stopped or ended it
\* leaves the transport alone until the next setTrack(media), and
\* setTrack without media leaves the track-set flag as it was.
C20_PlayOncePerSetTrack ==
    [][ /\ player'.plays <= 1
        /\ ( DoPlay /\ player.state \in {"Playing", "Paused"} )
               => player' = player_pause(player)
        /\ ( DoPlay /\ player.state \in {"Stopped", "Ended"}
                    /\ player.plays = 1 )
               => player' = player
        /\ ( DoSetTrack /\ seen'.arg = 0 )
               => player' = player ]_vars

C20_Witness ==
    /\ seen.op = "play" /\ seen.state = "Ended" /\ ~seen.track_set
    /\ player.plays = 1 /\ player.state = "Ended"
    /\ player.call.fn = "play"

\* C21: when the page carries no embed player id, album_id and mp3_urls
\* raise Mp3Error, and mp3_urls yields no URL built from a None album id.
C21_MissingIdRaises ==
    /\ ( mp3.op \in {"album_id", "mp3_urls"} /\ mp3.album_response.id = None )
           => mp3.raised
    /\ \A i \in 1..Len(mp3.urls) : mp3.urls[i].id # None
====
